---- MODULE Spec2Model ----
(***************************************************************************)
(* Model of src/whatUdoingbot.py: the per-user session state machine       *)
(* (class User), its follow-up timers (threading.Timer), the command       *)
(* dispatcher (User.handle_command), and the registry with its persistence *)
(* (load_users / save_and_quit).                                           *)
(*                                                                         *)
(* Time is a discrete clock `now`; FOLLOWUP_TIME is counted in ticks.      *)
(* Every command runs under `with self._lock`, so a command is one atomic  *)
(* step.  A threading.Timer is a thread: it waits for its delay, then, if  *)
(* its `finished` event is not set, calls the callback.  The callback      *)
(* blocks on the session lock, so "timer expired" and "callback ran" are   *)
(* two steps, and commands may run in between (Timer.cancel() is then too  *)
(* late).                                                                  *)
(***************************************************************************)
EXTENDS Integers, Sequences, FiniteSets, Bags, TLC

\* ---- bounds of the model ------------------------------------------------
MaxTime == 4
MaxUpdates == 1
MaxMessages == 4

\* ---- program constants ----------------------------------------------------
\* FOLLOWUP_TIME = timedelta(hours=1); one tick of the model clock is 30 min.
FOLLOWUP_TIME == 2

ADMINS == {"@boss"}

MORNING_MESSAGE == "Good morning. Let's start creating awesome sound experiences. Have a great day!"
REQUEST_FOR_UPDATE == "Hey, just checking up. Can you let me know what have you been doing?"
INVALID_INPUT == "Not sure what you mean. Type help to get possible commands"
NO_ACCEPT_ARGUMENTS == "Don't understand this command if followed by further text :/"
UPDATE_MESSAGE == "Thanks for the update!"
PAUSE_MESSAGE == "All right, time for a break. Do remember to inform me when you return!"
RESUME_MESSAGE == "Hello again!"
LOGOUT_MESSAGE == "Bye bye!"
HELP_MESSAGE == "I'm _what_u_doing_, a bot to help you log your hourly tasks."

Status == {"active", "paused", "logged_out"}

mismatch_message ==
    [s \in Status |->
        CASE s = "active" -> "Can't do this when you're already active!"
          [] s = "paused" -> "Can't do this while on a pause."
          [] s = "logged_out" -> "Can't do this while logged out."]

\* ---- Python values ----------------------------------------------------------
\* An attribute that may be None is a sequence: <<>> is None, <<v>> is v.
None == <<>>
Some(v) == <<v>>
Val(o) == o[1]

\* A threading.Timer object.  st: "none" (self._timer is None), "unstarted"
\* (created, start() never called), "waiting" (thread sleeping until due),
\* "fired" (woke up, passed the `finished` check, callback not yet through the
\* lock), "done" (the `finished` event is set: canceled, or callback returned).
NoTimer == [st |-> "none", due |-> 0]
UnstartedTimer == [st |-> "unstarted", due |-> 0]
DoneTimer == [st |-> "done", due |-> 0]
Live(t) == t.st \in {"waiting", "fired"}

\* users.list: the members of the team (the second one is a deleted account).
Roster ==
    << [id |-> "U1", name |-> "ann", deleted |-> FALSE],
       [id |-> "U2", name |-> "old", deleted |-> TRUE] >>

UserIds == {Roster[i].id : i \in 1..Len(Roster)}

VARIABLES
    now,        \* datetime.now()
    phase,      \* "loading" (load_users), "running" (read loop), "exiting"
                \* (main thread gone, timer threads alive), "crashed", "stopped"
    loadPos,    \* position of load_users in the roster
    users,      \* the global `users`: user id -> User object
    orphans,    \* user id -> bag of live Timer threads no User._timer refers to
    disk,       \* user id -> contents of status/<id>.bin
    received,   \* number of messages the read loop has handled so far
    out,        \* the API calls and log lines made by the last step
    last        \* the last step: [op, uid]

vars == <<now, phase, loadPos, users, orphans, disk, received, out, last>>

\* ---- class User ---------------------------------------------------------------
\* User.__init__
NewUser(data) ==
    [id |-> data.id, name |-> data.name, status |-> "logged_out",
     timer_start_time |-> None, timer |-> NoTimer, pause_time |-> None,
     working_time |-> None, updates |-> None]

\* The handlers work on a context c = [u: the User, orph: the user's orphaned
\* timer threads, out: the calls made so far, t: datetime.now(), send: what
\* becomes of a chat.postMessage call, raised: an exception is propagating].
\* slack_client.api_call either delivers ("ok"), returns an error reply that
\* nobody looks at ("error"), or raises, e.g. when the connection is down
\* ("raises"); no caller has a try around it.
SendOutcomes == {"ok", "error", "raises"}
\* One entry of `out`: kind "msg" (chat.postMessage), "log" (a line appended to
\* the user's log file) or "file" (files.upload of the day's report).
Call(kind, to, text, tasks, time) ==
    [kind |-> kind, to |-> to, text |-> text, tasks |-> tasks, time |-> time]

\* User._slack_message
SlackMessage(c, message) ==
    IF c.send = "ok"
    THEN [c EXCEPT !.out = Append(@, Call("msg", {c.u.id}, message, <<>>, 0))]
    ELSE [c EXCEPT !.out = Append(@, Call("msg_failed", {c.u.id}, message, <<>>, 0)),
                   !.raised = (c.send = "raises")]

\* User._log
Log(c, message, content) ==
    [c EXCEPT !.out = Append(@, Call("log", {c.u.name}, message, content, 0))]

\* Timer.cancel(): sets `finished`; too late for a timer that already fired.
TimerCancel(c) ==
    IF c.u.timer.st \in {"waiting", "unstarted"}
    THEN [c EXCEPT !.u.timer = DoneTimer]
    ELSE c

\* User._initiate_followup(elapsed_time): the Timer that self._timer referred to
\* is forgotten; if its thread is still alive it goes on running.
InitiateFollowup(c, elapsed_time) ==
    [c EXCEPT !.u.timer_start_time = Some(c.t - elapsed_time),
              !.u.timer = [st |-> "waiting", due |-> c.t + (FOLLOWUP_TIME - elapsed_time)],
              !.orph = IF Live(c.u.timer) THEN @ (+) SetToBag({c.u.timer}) ELSE @]

\* Mutant of TimelyFollowupBody: the status is not checked again under the lock.
TimelyFollowupBodyUnchecked(c) ==
    LET c1 == [c EXCEPT !.u.working_time = Some(Val(@) + FOLLOWUP_TIME)]
        c2 == SlackMessage(c1, REQUEST_FOR_UPDATE)
    IN  IF c2.raised THEN c2 ELSE InitiateFollowup(c2, 0)

\* Mutant of TimelyFollowupBody: the time is counted and the timer re-armed,
\* but nobody is asked anything.
TimelyFollowupBodySilent(c) ==
    IF c.u.status = "active"
    THEN InitiateFollowup([c EXCEPT !.u.working_time = Some(Val(@) + FOLLOWUP_TIME)], 0)
    ELSE c

\* User._timely_followup, inside `with self._lock`
TimelyFollowupBody(c) ==
    IF c.u.status = "active"
    THEN LET c1 == [c EXCEPT !.u.working_time = Some(Val(@) + FOLLOWUP_TIME)]
             c2 == SlackMessage(c1, REQUEST_FOR_UPDATE)
         IN  IF c2.raised THEN c2 ELSE InitiateFollowup(c2, 0)
    ELSE c

\* Mutant of Help: asking for help ends the day.
HelpLogsOut(c) == SlackMessage([c EXCEPT !.u.status = "logged_out"], HELP_MESSAGE)

\* User.help
Help(c) == SlackMessage(c, HELP_MESSAGE)

\* User.login
Login(c) ==
    LET c1 == [c EXCEPT !.u.updates = Some(<<>>),
                        !.u.status = "active",
                        !.u.working_time = Some(0)]
        c2 == SlackMessage(c1, MORNING_MESSAGE)
        c3 == Log(c2, "Logged in", <<>>)
    IN  IF c2.raised THEN c2 ELSE InitiateFollowup(c3, 0)

\* Mutant of Update: the running timer is left alone.
UpdateWithoutRearm(c, content) ==
    LET c1 == SlackMessage(c, UPDATE_MESSAGE)
        c2 == Log(c1, "Work update: ", <<content>>)
        c3 == [c2 EXCEPT !.u.updates = Some(Append(Val(@), content))]
        c5 == [c3 EXCEPT !.u.working_time =
                            Some(Val(@) + (c.t - Val(c.u.timer_start_time)))]
    IN  IF c1.raised THEN c1 ELSE c5

\* User.update
Update(c, content) ==
    LET c1 == SlackMessage(c, UPDATE_MESSAGE)
        c2 == Log(c1, "Work update: ", <<content>>)
        c3 == [c2 EXCEPT !.u.updates = Some(Append(Val(@), content))]
        c4 == TimerCancel(c3)
        c5 == [c4 EXCEPT !.u.working_time =
                            Some(Val(@) + (c.t - Val(c.u.timer_start_time)))]
    IN  IF c1.raised THEN c1 ELSE InitiateFollowup(c5, 0)

\* Mutant of Pause: the time since the anchor is counted at the pause already.
PauseCountsTime(c) ==
    LET c1 == [c EXCEPT !.u.status = "paused", !.u.pause_time = Some(c.t),
                        !.u.working_time =
                            Some(Val(@) + (c.t - Val(c.u.timer_start_time)))]
        c2 == TimerCancel(c1)
        c3 == SlackMessage(c2, PAUSE_MESSAGE)
    IN  IF c3.raised THEN c3 ELSE Log(c3, "Paused for break", <<>>)

\* User.pause
Pause(c) ==
    LET c1 == [c EXCEPT !.u.status = "paused", !.u.pause_time = Some(c.t)]
        c2 == TimerCancel(c1)
        c3 == SlackMessage(c2, PAUSE_MESSAGE)
    IN  IF c3.raised THEN c3 ELSE Log(c3, "Paused for break", <<>>)

\* Mutant of Resume: the timer starts afresh, for the full interval.
ResumeFullInterval(c) ==
    LET c1 == [c EXCEPT !.u.status = "active"]
        c2 == InitiateFollowup(c1, 0)
        c3 == SlackMessage(c2, RESUME_MESSAGE)
    IN  IF c3.raised THEN c3 ELSE Log(c3, "Resumed working", <<>>)

\* User.resume
Resume(c) ==
    LET c1 == [c EXCEPT !.u.status = "active"]
        c2 == InitiateFollowup(c1, Val(c.u.pause_time) - Val(c.u.timer_start_time))
        c3 == SlackMessage(c2, RESUME_MESSAGE)
    IN  IF c.u.pause_time = None          \* None - datetime: TypeError
        THEN [c1 EXCEPT !.raised = TRUE]
        ELSE IF c3.raised THEN c3 ELSE Log(c3, "Resumed working", <<>>)

\* User._relay_stats
RelayStats(c) ==
    [c EXCEPT !.out = Append(@, Call("file", ADMINS \cup {"@" \o c.u.name},
                                     "stats", Val(c.u.updates), Val(c.u.working_time)))]

\* User.logout
Logout(c) ==
    LET final_time == IF c.u.status = "active" THEN c.t ELSE Val(c.u.pause_time)
        c1 == [c EXCEPT !.u.working_time =
                            Some(Val(@) + (final_time - Val(c.u.timer_start_time)))]
        c2 == SlackMessage(c1, LOGOUT_MESSAGE)
        c3 == Log(c2, "Logged out", <<>>)
        c4 == [c3 EXCEPT !.u.status = "logged_out"]
        c5 == TimerCancel(c4)
    IN  IF c.u.status # "active" /\ c.u.pause_time = None   \* TypeError
        THEN [c EXCEPT !.raised = TRUE]
        ELSE IF c2.raised THEN c2 ELSE RelayStats(c5)

\* ---- command dispatch ----------------------------------------------------------
Commands == {"help", "login", "update", "pause", "resume", "logout"}

\* The body of the method behind a command, called with its arguments.
CommandBody(name, c, args) ==
    CASE name = "help" -> Help(c)
      [] name = "login" -> Login(c)
      [] name = "update" -> Update(c, args[1])
      [] name = "pause" -> Pause(c)
      [] name = "resume" -> Resume(c)
      [] name = "logout" -> Logout(c)

\* len(inspect.signature(func).parameters) - 1
NumParams(name) == IF name = "update" THEN 1 ELSE 0

\* Mutant of Command: text after a command that takes none is dropped.
CommandDropsText(name, c, args) ==
    IF NumParams(name) = 0 THEN CommandBody(name, c, <<>>)
    ELSE IF args = <<>> THEN CommandBody(name, c, << <<>> >>)
    ELSE CommandBody(name, c, args)

\* The wrapper one_argument_fn that @_command puts around a method.
Command(name, c, args) ==
    IF Len(args) = NumParams(name) THEN CommandBody(name, c, args)
    ELSE IF args # <<>> THEN SlackMessage(c, NO_ACCEPT_ARGUMENTS)
    ELSE IF NumParams(name) # 0 THEN CommandBody(name, c, << <<>> >>)
    ELSE c

\* The statuses given to @_allowed_status on each method (help has none).
Allowed(name) ==
    CASE name = "login" -> {"logged_out"}
      [] name = "update" -> {"active"}
      [] name = "pause" -> {"active"}
      [] name = "resume" -> {"paused"}
      [] name = "logout" -> {"active", "paused"}
      [] name = "help" -> Status

\* Mutant of AllowedStatus: update is let through while on a pause.
AllowedStatusUpdateOnPause(name, c, args) ==
    IF c.u.status \in Allowed(name) \/ (name = "update" /\ c.u.status = "paused")
    THEN Command(name, c, args)
    ELSE SlackMessage(c, mismatch_message[c.u.status])

\* The wrapper with_args that @_allowed_status puts around the @_command wrapper.
AllowedStatus(name, c, args) ==
    IF c.u.status \in Allowed(name) THEN Command(name, c, args)
    ELSE SlackMessage(c, mismatch_message[c.u.status])

\* A raw message is the sequence of its whitespace-separated words; the text of
\* an update is the sequence of the words after the first (<<>> is "").
Verbs == {"login", "update", "pause", "resume", "logout", "help",
          "LOGIN", "Pause", "status", "handle_command", "_timer", "hello"}
ArgWords == {"foo"}
Inputs == {<<>>} \cup {<<v>> : v \in Verbs} \cup {<<v, a>> : v \in Verbs, a \in ArgWords}

\* str.lower()
Lower(w) ==
    CASE w = "LOGIN" -> "login"
      [] w = "Pause" -> "pause"
      [] OTHER -> w

\* user_input.split(None, 1)
Split(user_input) ==
    IF user_input = <<>> THEN <<>>
    ELSE IF Len(user_input) = 1 THEN <<user_input[1]>>
    ELSE <<user_input[1], Tail(user_input)>>

\* getattr(self, name, None), as far as handle_command looks at it:
\* is it callable, and does it carry is_command.
Attr(name) ==
    CASE name \in Commands -> [callable |-> TRUE, is_command |-> TRUE]
      [] name \in {"handle_command", "_timely_followup", "_initiate_followup",
                   "_relay_stats", "_slack_message", "_log"}
            -> [callable |-> TRUE, is_command |-> FALSE]
      [] name \in {"status", "id", "name", "_timer", "_status", "_lock"}
            -> [callable |-> FALSE, is_command |-> FALSE]
      [] OTHER -> [callable |-> FALSE, is_command |-> FALSE]

\* Mutant of HandleCommand: what is not a command is passed over in silence.
HandleCommandIgnoresUnknown(c, user_input) ==
    LET tokens == Split(user_input) IN
    IF tokens = <<>> THEN c
    ELSE LET name == Lower(tokens[1])
             func == Attr(name)
         IN  IF func.callable /\ func.is_command
             THEN IF name = "help" THEN Command(name, c, Tail(tokens))
                                   ELSE AllowedStatus(name, c, Tail(tokens))
             ELSE c

\* User.handle_command, inside `with self._lock`
HandleCommand(c, user_input) ==
    LET tokens == Split(user_input) IN
    IF tokens = <<>> THEN c
    ELSE LET name == Lower(tokens[1])
             func == Attr(name)
         IN  IF func.callable /\ func.is_command
             THEN IF name = "help" THEN Command(name, c, Tail(tokens))
                                   ELSE AllowedStatus(name, c, Tail(tokens))
             ELSE SlackMessage(c, INVALID_INPUT)

\* ---- persistence -----------------------------------------------------------------
\* A file status/<id>.bin: absent, unreadable (no permission), empty (cut to
\* nothing), garbage (cut short or overwritten), or the pickle of a User.
File(kind, state) == [kind |-> kind, state |-> state]
AbsentFile == File("absent", None)
InitialFiles == {File(k, None) : k \in {"absent", "unreadable", "empty", "garbage"}}

\* User.__getstate__
GetState(u) == [u EXCEPT !.timer = NoTimer]

\* pickle.dump(user, status_file)
PickleDump(u) == File("pickle", Some(GetState(u)))

\* open(...) followed by pickle.load(status_file): the exception raised ("" for
\* none) and the state handed to __setstate__.
PickleLoad(file) ==
    CASE file.kind = "absent" -> [exc |-> "FileNotFoundError", state |-> None]
      [] file.kind = "unreadable" -> [exc |-> "IOError", state |-> None]
      [] file.kind = "empty" -> [exc |-> "EOFError", state |-> None]
      [] file.kind = "garbage" -> [exc |-> "UnpicklingError", state |-> None]
      [] file.kind = "pickle" ->
            \* __setstate__ of an Active session without anchor: now - None
            IF /\ Val(file.state).status = "active"
               /\ Val(file.state).timer_start_time = None
            THEN [exc |-> "TypeError", state |-> None]
            ELSE [exc |-> "", state |-> file.state]

\* except (FileNotFoundError, IOError, EOFError)
Caught == {"FileNotFoundError", "IOError", "EOFError"}

\* Mutant of SetState: the timer is started afresh, for the full interval.
SetStateFullInterval(state, t) ==
    LET c == [u |-> [state EXCEPT !.timer = UnstartedTimer],
              orph |-> EmptyBag, out |-> <<>>, t |-> t,
              send |-> "ok", raised |-> FALSE]
    IN  IF state.status = "active" THEN InitiateFollowup(c, 0).u ELSE c.u

\* User.__setstate__, at time t in a process that has no timer thread yet
SetState(state, t) ==
    LET c == [u |-> [state EXCEPT !.timer = UnstartedTimer],
              orph |-> EmptyBag, out |-> <<>>, t |-> t,
              send |-> "ok", raised |-> FALSE]
    IN  IF state.status = "active"
        THEN InitiateFollowup(c, t - Val(state.timer_start_time)).u
        ELSE c.u

\* ---- the process ---------------------------------------------------------------------
NoUsers == [id \in {} |-> NoTimer]
NoOrphans == [id \in UserIds |-> EmptyBag]

\* The timer threads of a user that are alive.
LiveTimers(uid) ==
    (IF Live(users[uid].timer) THEN SetToBag({users[uid].timer}) ELSE EmptyBag)
        (+) orphans[uid]

AnyLiveTimer == \E uid \in DOMAIN users : LiveTimers(uid) # EmptyBag

\* A timer thread has something to do at this instant.
TimerDue(t) == t.st = "fired" \/ (t.st = "waiting" /\ t.due <= now)
AnyTimerDue ==
    \E uid \in DOMAIN users : \E t \in BagToSet(LiveTimers(uid)) : TimerDue(t)

Ctx(uid) ==
    [u |-> users[uid], orph |-> orphans[uid], out |-> <<>>, t |-> now,
     send |-> "ok", raised |-> FALSE]

Event(op, uid) == [op |-> op, uid |-> uid]

Init ==
    /\ now = 0
    /\ phase = "loading"
    /\ loadPos = 1
    /\ users = NoUsers
    /\ orphans = NoOrphans
    /\ disk \in [UserIds -> InitialFiles]
    /\ received = 0
    /\ out = <<>>
    /\ last = Event("start", "")

\* The clock advances.  Timer threads wake up on time and a callback waits for
\* the lock only as long as a command holds it, so no instant passes while a
\* timer is due; load_users takes no time.
Tick ==
    /\ now < MaxTime
    /\ phase # "loading"
    /\ ~AnyTimerDue
    /\ now' = now + 1
    /\ out' = <<>>
    /\ last' = Event("tick", "")
    /\ UNCHANGED <<phase, loadPos, users, orphans, disk, received>>

\* Timer.run up to the call of the callback: the wait is over and `finished` is
\* not set.  The thread is self._timer or an orphan.
TimerRun(uid) ==
    /\ phase \in {"loading", "running", "exiting", "crashed"}
    /\ uid \in DOMAIN users
    /\ \/ /\ users[uid].timer.st = "waiting"
          /\ users[uid].timer.due <= now
          /\ users' = [users EXCEPT ![uid].timer.st = "fired"]
          /\ UNCHANGED orphans
       \/ \E t \in BagToSet(orphans[uid]) :
            /\ t.st = "waiting"
            /\ t.due <= now
            /\ orphans' = [orphans EXCEPT ![uid] =
                              (@ (-) SetToBag({t})) (+) SetToBag({[t EXCEPT !.st = "fired"]})]
            /\ UNCHANGED users
    /\ out' = <<>>
    /\ last' = Event("timer", uid)
    /\ UNCHANGED <<now, phase, loadPos, disk, received>>

\* User._timely_followup, run by a timer thread that fired, once it has the lock.
TimelyFollowup(uid) ==
    /\ phase \in {"loading", "running", "exiting", "crashed"}
    /\ uid \in DOMAIN users
    /\ \E c0 \in
            (IF users[uid].timer.st = "fired"
             THEN {[Ctx(uid) EXCEPT !.u.timer = DoneTimer]} ELSE {})
            \cup {[Ctx(uid) EXCEPT !.orph = @ (-) SetToBag({t})] :
                     t \in {x \in BagToSet(orphans[uid]) : x.st = "fired"}} :
         \E c \in {TimelyFollowupBody(c0)} :
            /\ users' = [users EXCEPT ![uid] = c.u]
            /\ orphans' = [orphans EXCEPT ![uid] = c.orph]
            /\ out' = c.out
    /\ last' = Event("followup", uid)
    /\ UNCHANGED <<now, phase, loadPos, disk, received>>

\* One round of the read loop: a message of a known user is handled.
Deliver(uid, user_input) ==
    /\ phase = "running"
    /\ uid \in DOMAIN users
    /\ received < MaxMessages
    /\ received' = received + 1
    /\ \E c \in {HandleCommand(Ctx(uid), user_input)} :
            /\ ~c.raised
            /\ c.u.updates # None => Len(Val(c.u.updates)) <= MaxUpdates
            /\ out' = c.out
            /\ users' = [users EXCEPT ![uid] = c.u]
            /\ orphans' = [orphans EXCEPT ![uid] = c.orph]
    /\ last' = Event("command", uid)
    /\ UNCHANGED <<now, phase, loadPos, disk>>

\* save_and_quit, the SIGINT handler.  sys.exit() ends the main thread; the
\* interpreter then joins the timer threads, which are not daemons, so the
\* process lives on while one is alive.  A second SIGINT lands in that join,
\* runs the handler again and ends the process.
SaveAndQuit ==
    /\ phase \in {"running", "exiting"}
    /\ disk' = [id \in UserIds |->
                  IF id \in DOMAIN users /\ users[id].status # "logged_out"
                  THEN PickleDump(users[id]) ELSE disk[id]]
    /\ IF phase = "running" /\ AnyLiveTimer
       THEN phase' = "exiting" /\ UNCHANGED <<users, orphans>>
       ELSE phase' = "stopped" /\ users' = NoUsers /\ orphans' = NoOrphans
    /\ out' = <<>>
    /\ last' = Event("save_and_quit", "")
    /\ UNCHANGED <<now, loadPos, received>>

\* The last timer thread has ended after sys.exit(): the process ends.
ProcessExit ==
    /\ phase = "exiting"
    /\ ~AnyLiveTimer
    /\ phase' = "stopped"
    /\ users' = NoUsers
    /\ orphans' = NoOrphans
    /\ out' = <<>>
    /\ last' = Event("exit", "")
    /\ UNCHANGED <<now, loadPos, disk, received>>

\* The program is started again.
Start ==
    /\ phase = "stopped"
    /\ phase' = "loading"
    /\ loadPos' = 1
    /\ out' = <<>>
    /\ last' = Event("start", "")
    /\ UNCHANGED <<now, users, orphans, disk, received>>

\* load_users: one round of the loop over the members.
LoadUser ==
    /\ phase = "loading"
    /\ loadPos <= Len(Roster)
    /\ LET user_data == Roster[loadPos]
           user_id == user_data.id
           loaded == PickleLoad(disk[user_id])
           put(u) == [id \in DOMAIN users \cup {user_id} |->
                        IF id = user_id THEN u ELSE users[id]]
       IN  IF user_data.deleted
           THEN /\ loadPos' = loadPos + 1
                /\ out' = <<>>
                /\ last' = Event("skip", user_id)
                /\ UNCHANGED <<phase, users>>
           ELSE IF loaded.exc = ""
           THEN /\ users' = put(SetState(Val(loaded.state), now))
                /\ out' = <<Call("print", {}, "Restored session information of " \o user_data.name, <<>>, 0)>>
                /\ last' = Event("restore", user_id)
                /\ loadPos' = loadPos + 1
                /\ UNCHANGED phase
           ELSE IF loaded.exc \in Caught
           THEN /\ users' = put(NewUser(user_data))
                /\ out' = <<Call("print", {}, "Reset session for " \o user_data.name, <<>>, 0)>>
                /\ last' = Event("reset", user_id)
                /\ loadPos' = loadPos + 1
                /\ UNCHANGED phase
           ELSE /\ phase' = "crashed"
                /\ out' = <<Call("traceback", {}, loaded.exc, <<>>, 0)>>
                /\ last' = Event("crash", user_id)
                /\ UNCHANGED <<loadPos, users>>
    /\ UNCHANGED <<now, orphans, disk, received>>

\* load_users after the loop: every file of status/ is removed; then the
\* SIGINT handler is installed and the read loop starts.
LoadDone ==
    /\ phase = "loading"
    /\ loadPos > Len(Roster)
    /\ disk' = [id \in UserIds |-> AbsentFile]
    /\ phase' = "running"
    /\ out' = <<>>
    /\ last' = Event("connected", "")
    /\ UNCHANGED <<now, loadPos, users, orphans, received>>

\* The timer threads of uid whose callback is waiting for the lock, each as
\* the context its callback starts from.
FollowupContexts(uid) ==
    (IF users[uid].timer.st = "fired"
     THEN {[Ctx(uid) EXCEPT !.u.timer = DoneTimer]} ELSE {})
    \cup {[Ctx(uid) EXCEPT !.orph = @ (-) SetToBag({t})] :
             t \in {x \in BagToSet(orphans[uid]) : x.st = "fired"}}

\* A chat.postMessage call of the step did not deliver.
SendFailed(c) == \E i \in 1..Len(c.out) : c.out[i].kind = "msg_failed"

\* One round of the read loop in which the send fails.  An exception leaves
\* handle_command (the lock is released by `with`) and the read loop, whose
\* try catches WebSocketConnectionClosedException only: the main thread ends
\* with a traceback, the timer threads go on.
DeliverSendFails(uid, user_input, send) ==
    /\ phase = "running"
    /\ uid \in DOMAIN users
    /\ received < MaxMessages
    /\ received' = received + 1
    /\ send # "ok"
    /\ \E c \in {HandleCommand([Ctx(uid) EXCEPT !.send = send], user_input)} :
            /\ SendFailed(c)
            /\ c.u.updates # None => Len(Val(c.u.updates)) <= MaxUpdates
            /\ out' = c.out
            /\ users' = [users EXCEPT ![uid] = c.u]
            /\ orphans' = [orphans EXCEPT ![uid] = c.orph]
            /\ phase' = IF c.raised THEN "crashed" ELSE phase
    /\ last' = Event("command_send_failed", uid)
    /\ UNCHANGED <<now, loadPos, disk>>

\* User._timely_followup in which the send fails.  An exception ends the timer
\* thread (threading prints the traceback); nothing else notices.  (The session
\* it leaves behind is nagged again at every restart; the working time this
\* adds is capped.)
TimelyFollowupSendFails(uid, send) ==
    /\ phase \in {"loading", "running", "exiting", "crashed"}
    /\ uid \in DOMAIN users
    /\ send # "ok"
    /\ \E c0 \in FollowupContexts(uid) :
         \E c \in {TimelyFollowupBody([c0 EXCEPT !.send = send])} :
            /\ SendFailed(c)
            /\ Val(c.u.working_time) <= MaxTime + 1
            /\ users' = [users EXCEPT ![uid] = c.u]
            /\ orphans' = [orphans EXCEPT ![uid] = c.orph]
            /\ out' = c.out
    /\ last' = Event("followup_send_failed", uid)
    /\ UNCHANGED <<now, phase, loadPos, disk, received>>

Next ==
    \/ Tick
    \/ \E uid \in UserIds : TimerRun(uid)
    \/ \E uid \in UserIds : TimelyFollowup(uid)
    \/ \E uid \in UserIds, user_input \in Inputs : Deliver(uid, user_input)
    \/ SaveAndQuit
    \/ ProcessExit
    \/ Start
    \/ LoadUser
    \/ LoadDone

\* The program with a transport that delivers every message.
Spec == Init /\ [][Next]_vars

\* The same, with the scheduling the runtime gives: the clock advances, timer
\* threads wake up when due and get the lock once it is free, and load_users
\* runs to its end.  (Messages and SIGINT come or do not come.)
SpecFair ==
    /\ Spec
    /\ WF_vars(Tick)
    /\ \A uid \in UserIds : WF_vars(TimerRun(uid)) /\ WF_vars(TimelyFollowup(uid))
    /\ WF_vars(LoadUser)
    /\ WF_vars(LoadDone)

\* The program with a transport that may fail.
NextSendFails ==
    \/ Next
    \/ \E uid \in UserIds, user_input \in Inputs, send \in SendOutcomes \ {"ok"} :
            DeliverSendFails(uid, user_input, send)
    \/ \E uid \in UserIds, send \in SendOutcomes \ {"ok"} :
            TimelyFollowupSendFails(uid, send)

SpecSendFails == Init /\ [][NextSendFails]_vars

\* ---- SIGINT in the middle of a transition -------------------------------------
\* save_and_quit takes no lock.  Python runs a signal handler in the main
\* thread between two bytecodes, so it may run while the main thread is
\* inside a command (holding the lock), and while a timer thread is inside
\* _timely_followup.

\* The session at the points inside the body of a command at which its
\* attributes are not those before or after the command.
HalfDone(name, c, args) ==
    CASE name = "login" ->
            {[c.u EXCEPT !.updates = Some(<<>>)],
             [c.u EXCEPT !.updates = Some(<<>>), !.status = "active"],
             [c.u EXCEPT !.updates = Some(<<>>), !.status = "active",
                         !.working_time = Some(0)]}
      [] name = "update" ->
            {[c.u EXCEPT !.updates = Some(Append(Val(@), args[1]))]}
      [] name = "pause" -> {[c.u EXCEPT !.status = "paused"]}
      [] name = "resume" -> {[c.u EXCEPT !.status = "active"]}
      [] name = "logout" ->
            IF c.u.status # "active" /\ c.u.pause_time = None THEN {}
            ELSE {[c.u EXCEPT !.working_time =
                        Some(Val(@) + ((IF c.u.status = "active"
                                        THEN c.t ELSE Val(c.u.pause_time))
                                       - Val(c.u.timer_start_time)))]}
      [] name = "help" -> {}

\* The same for User.handle_command: the body runs when the word is a
\* command, the status allows it and the arguments fit.
HandleCommandHalfDone(c, user_input) ==
    LET tokens == Split(user_input) IN
    IF tokens = <<>> THEN {}
    ELSE LET name == Lower(tokens[1])
             func == Attr(name)
             args == Tail(tokens)
         IN  IF /\ func.callable /\ func.is_command
                /\ c.u.status \in Allowed(name)
                /\ (Len(args) = NumParams(name) \/ args = <<>>)
             THEN HalfDone(name, c, IF NumParams(name) # 0 /\ args = <<>>
                                    THEN << <<>> >> ELSE args)
             ELSE {}

\* What save_and_quit writes when the sessions in memory are mem.
Snapshot(mem) ==
    [id \in UserIds |->
        IF id \in DOMAIN mem /\ mem[id].status # "logged_out"
        THEN PickleDump(mem[id]) ELSE disk[id]]

\* SIGINT while the read loop is inside handle_command: the snapshot holds
\* the half-done session, and SystemExit ends the command where it is.
SaveAndQuitMidCommand(uid, user_input) ==
    /\ phase = "running"
    /\ uid \in DOMAIN users
    /\ received < MaxMessages
    /\ received' = received + 1
    /\ \E h \in HandleCommandHalfDone(Ctx(uid), user_input) :
         LET mem == [users EXCEPT ![uid] = h] IN
            /\ h.updates # None => Len(Val(h.updates)) <= MaxUpdates
            /\ disk' = Snapshot(mem)
            /\ IF \E id \in DOMAIN mem : Live(mem[id].timer) \/ orphans[id] # EmptyBag
               THEN phase' = "exiting" /\ users' = mem /\ UNCHANGED orphans
               ELSE phase' = "stopped" /\ users' = NoUsers /\ orphans' = NoOrphans
    /\ out' = <<>>
    /\ last' = Event("save_and_quit_mid_command", uid)
    /\ UNCHANGED <<now, loadPos>>

\* SIGINT while a timer thread is inside _timely_followup, after line 156:
\* the snapshot holds the added time with the old anchor; the timer thread
\* then goes on.  (The working time that repeating this adds is capped.)
SaveAndQuitMidFollowup(uid) ==
    /\ phase = "running"
    /\ uid \in DOMAIN users
    /\ users[uid].status = "active"
    /\ FollowupContexts(uid) # {}
    /\ Val(users[uid].working_time) + FOLLOWUP_TIME <= MaxTime + 1
    /\ disk' = Snapshot([users EXCEPT ![uid].working_time =
                                        Some(Val(@) + FOLLOWUP_TIME)])
    /\ phase' = "exiting"
    /\ out' = <<>>
    /\ last' = Event("save_and_quit_mid_followup", uid)
    /\ UNCHANGED <<now, loadPos, users, orphans, received>>

\* A command that raises TypeError on an attribute that is None: the exception
\* leaves the read loop and the main thread ends with a traceback.
DeliverRaises(uid, user_input) ==
    /\ phase = "running"
    /\ uid \in DOMAIN users
    /\ received < MaxMessages
    /\ received' = received + 1
    /\ \E c \in {HandleCommand(Ctx(uid), user_input)} :
            /\ c.raised
            /\ out' = Append(c.out, Call("traceback", {}, "TypeError", <<>>, 0))
            /\ users' = [users EXCEPT ![uid] = c.u]
            /\ orphans' = [orphans EXCEPT ![uid] = c.orph]
    /\ phase' = "crashed"
    /\ last' = Event("command_raised", uid)
    /\ UNCHANGED <<now, loadPos, disk>>

NextSigint ==
    \/ Next
    \/ \E uid \in UserIds, user_input \in Inputs :
            SaveAndQuitMidCommand(uid, user_input)
    \/ \E uid \in UserIds : SaveAndQuitMidFollowup(uid)
    \/ \E uid \in UserIds, user_input \in Inputs : DeliverRaises(uid, user_input)

SpecSigint == Init /\ [][NextSigint]_vars

\* ---- the claims --------------------------------------------------------------------
\* The timer threads of a user that are still sleeping (armed), and those that
\* woke up and whose callback has not run yet.
WaitingTimers(uid) ==
    LET all == LiveTimers(uid) IN
    [t \in {x \in BagToSet(all) : x.st = "waiting"} |-> all[t]]
FiredTimers(uid) ==
    LET all == LiveTimers(uid) IN
    [t \in {x \in BagToSet(all) : x.st = "fired"} |-> all[t]]

\* C1: an Active session has exactly one armed follow-up timer, never zero and
\* never two, and it is due at timerAnchor + FOLLOWUP_INTERVAL.  (A timer whose
\* callback is about to re-arm it is not counted as "zero".)
C1_ActiveHasOneTimer ==
    \A uid \in DOMAIN users :
        users[uid].status = "active" =>
            /\ BagCardinality(WaitingTimers(uid)) <= 1
            /\ BagCardinality(LiveTimers(uid)) >= 1
            /\ \A t \in BagToSet(WaitingTimers(uid)) :
                    t.due = Val(users[uid].timer_start_time) + FOLLOWUP_TIME

\* C2: a Paused or LoggedOut session has no armed follow-up timer.
C2_IdleHasNoTimer ==
    \A uid \in DOMAIN users :
        users[uid].status \in {"paused", "logged_out"} =>
            BagCardinality(WaitingTimers(uid)) = 0

\* The step is User.handle_command of uid on a message whose first word,
\* in lower case, is `name`.  (Only the read loop changes `received`, and it
\* leaves the user it served in last.uid.)
Sends(uid, name, user_input) ==
    /\ user_input # <<>>
    /\ Lower(user_input[1]) = name
    /\ Deliver(uid, user_input)

\* Nothing of the session of uid changes: no attribute, no timer.
SessionUnchanged(uid) ==
    /\ users'[uid] = users[uid]
    /\ orphans'[uid] = orphans[uid]

\* The only call of the step is one message to uid.
OnlyMessage(uid, text) == out' = <<Call("msg", {uid}, text, <<>>, 0)>>

\* The statuses from which the transition table lets a command through.
LegalFrom(name) ==
    CASE name = "login" -> {"logged_out"}
      [] name \in {"update", "pause"} -> {"active"}
      [] name = "resume" -> {"paused"}
      [] name = "logout" -> {"active", "paused"}
      [] name = "help" -> {"active", "paused", "logged_out"}

\* C3: a follow-up whose timer fired but which gets the lock only after pause
\* or logout is a no-op: no nag, accumulatedWorkTime unchanged, no new timer.
C3_StaleFollowupIsNoOp ==
    [][\A uid \in UserIds :
          (/\ uid \in DOMAIN users
           /\ users[uid].status \in {"paused", "logged_out"}
           /\ TimelyFollowup(uid))
          => /\ out' = <<>>
             /\ users'[uid].working_time = users[uid].working_time
             /\ users'[uid].status = users[uid].status
             /\ users'[uid].timer_start_time = users[uid].timer_start_time
             /\ BagCardinality(WaitingTimers(uid))' = BagCardinality(WaitingTimers(uid))
             /\ BagCardinality(LiveTimers(uid))' = BagCardinality(LiveTimers(uid)) - 1]_vars

\* A stale follow-up has just run for a Paused session.
C3_Witness ==
    /\ last.op = "followup"
    /\ users[last.uid].status = "paused"
    /\ out = <<>>

\* The messages whose first word is a command with a transition table entry.
TableInputs ==
    {i \in Inputs \ {<<>>} : Lower(i[1]) \in Commands \ {"help"}}

\* C4: a command sent in a status from which it is not allowed is answered
\* with the rejection message of the current status and changes nothing.
\* (Read: a step of the read loop either has that effect, or it is not the
\* delivery of such a command.)
C4_IllegalTransitionRejected ==
    [][received' # received =>
          LET uid == last'.uid IN
          \/ /\ OnlyMessage(uid, mismatch_message[users[uid].status])
             /\ SessionUnchanged(uid)
          \/ \A user_input \in TableInputs :
                users[uid].status \notin LegalFrom(Lower(user_input[1]))
                    => ~Deliver(uid, user_input)]_vars

\* Scenario D: a Paused user has just sent update and got the rejection of Paused.
C4_Witness ==
    /\ last.op = "command"
    /\ users[last.uid].status = "paused"
    /\ users[last.uid].updates = Some(<<>>)
    /\ out = <<Call("msg", {last.uid}, "Can't do this while on a pause.", <<>>, 0)>>

ZeroArgCommands == {"login", "pause", "resume", "logout", "help"}

\* The messages that are a zero-argument command followed by text.
TrailingTextInputs ==
    {i \in Inputs : Len(i) > 1 /\ Lower(i[1]) \in ZeroArgCommands}

\* C5 as claimed: in every status, a zero-argument command followed by text is
\* answered with the no-arguments message and changes nothing.
C5_TrailingTextRejected ==
    [][received' # received =>
          LET uid == last'.uid IN
          \A user_input \in TrailingTextInputs :
             Deliver(uid, user_input)
             => /\ OnlyMessage(uid, NO_ACCEPT_ARGUMENTS)
                /\ SessionUnchanged(uid)]_vars

\* C5 as amended: a zero-argument command followed by text changes nothing; it
\* is answered with the no-arguments message when the command is allowed in the
\* current status, and with the rejection message of the current status when
\* it is not (the status is checked before the arguments).
C5_TrailingTextRejectedByStatusFirst ==
    [][received' # received =>
          LET uid == last'.uid IN
          \A user_input \in TrailingTextInputs :
             Deliver(uid, user_input)
             => /\ OnlyMessage(uid,
                      IF users[uid].status \in LegalFrom(Lower(user_input[1]))
                      THEN NO_ACCEPT_ARGUMENTS
                      ELSE mismatch_message[users[uid].status])
                /\ SessionUnchanged(uid)]_vars

\* Scenario F: an Active user has just sent `pause foo` and got the no-arguments
\* message.
C5_Witness ==
    /\ last.op = "command"
    /\ users[last.uid].status = "active"
    /\ out = <<Call("msg", {last.uid}, NO_ACCEPT_ARGUMENTS, <<>>, 0)>>

\* The step resets the working time of uid at a login.
LoginReset(uid) ==
    /\ users[uid].status = "logged_out"
    /\ users'[uid].status = "active"
    /\ users'[uid].working_time = Some(0)

\* The working time of uid grows in the step (and was set before it).
WorkTimeGrows(uid) ==
    /\ users[uid].working_time # None
    /\ users'[uid].working_time # None
    /\ Val(users'[uid].working_time) > Val(users[uid].working_time)

\* C6 as claimed: accumulatedWorkTime never decreases between login and logout
\* and changes only in a transition out of Active (a follow-up, an update, a
\* pause or a logout issued while Active); nothing done from Paused or
\* LoggedOut changes it, but for the reset at login.
C6_WorkTimeOnlyOutOfActive ==
    [][\A uid \in DOMAIN users \cap DOMAIN users' :
          users'[uid].working_time # users[uid].working_time
          => \/ LoginReset(uid)
             \/ /\ WorkTimeGrows(uid)
                /\ users[uid].status = "active"
                /\ \/ TimelyFollowup(uid)
                   \/ \E user_input \in Inputs, name \in {"update", "pause", "logout"} :
                         Sends(uid, name, user_input)]_vars

\* C6 as amended: accumulatedWorkTime never decreases between login and logout
\* and changes only in a follow-up or an update of an Active session, or in a
\* logout, which from Paused adds pauseStartedAt - timerAnchor; pause and
\* resume never change it, nor does anything done from LoggedOut but the reset
\* at login.
C6_WorkTimeOnlyByFollowupUpdateLogout ==
    [][\A uid \in DOMAIN users \cap DOMAIN users' :
          users'[uid].working_time # users[uid].working_time
          => \/ LoginReset(uid)
             \/ /\ WorkTimeGrows(uid)
                /\ \/ /\ users[uid].status = "active"
                      /\ \/ TimelyFollowup(uid)
                         \/ \E user_input \in Inputs, name \in {"update", "logout"} :
                               Sends(uid, name, user_input)
                   \/ /\ users[uid].status = "paused"
                      /\ \E user_input \in Inputs : Sends(uid, "logout", user_input)
                      /\ Val(users'[uid].working_time) =
                            Val(users[uid].working_time)
                              + Val(users[uid].pause_time)
                              - Val(users[uid].timer_start_time)]_vars

\* A session that paused some time after its anchor has just logged out from
\* the pause, later still: the report carries the time up to the pause.
C6_Witness ==
    /\ last.op = "command"
    /\ users[last.uid].status = "logged_out"
    /\ users[last.uid].pause_time # None
    /\ Len(out) = 3
    /\ out[3].kind = "file"
    /\ out[3].time > 0
    /\ out[3].time = Val(users[last.uid].pause_time) - Val(users[last.uid].timer_start_time)
    /\ Val(users[last.uid].pause_time) < now

\* C7: a LoggedOut session has pauseStartedAt = null.
C7_LoggedOutHasNoPauseTime ==
    \A uid \in DOMAIN users :
        users[uid].status = "logged_out" => users[uid].pause_time = None

\* The attributes of a session that a restart must keep.
SameSession(a, b) ==
    /\ a.status = b.status
    /\ a.working_time = b.working_time
    /\ a.updates = b.updates
    /\ a.timer_start_time = b.timer_start_time

\* C8: when the process ends, the file of an Active session holds its status,
\* accumulatedWorkTime, pendingUpdates and timerAnchor, and loading that file
\* at the next start gives a session with the same four, and exactly one
\* timer, armed with the delay FOLLOWUP_INTERVAL - (now - timerAnchor).
C8_RoundTrip ==
    [][\A uid \in UserIds :
          /\ (/\ phase # "stopped"
               /\ phase' = "stopped"
               /\ uid \in DOMAIN users
               /\ users[uid].status = "active")
              => /\ disk'[uid].kind = "pickle"
                 /\ SameSession(Val(disk'[uid].state), users[uid])
          /\ (/\ phase = "loading"
               /\ loadPos <= Len(Roster)
               /\ Roster[loadPos].id = uid
               /\ ~Roster[loadPos].deleted
               /\ disk[uid].kind = "pickle"
               /\ Val(disk[uid].state).status = "active"
               /\ LoadUser)
              => /\ uid \in DOMAIN users'
                 /\ SameSession(users'[uid], Val(disk[uid].state))
                 /\ users'[uid].timer.st = "waiting"
                 /\ users'[uid].timer.due - now =
                        FOLLOWUP_TIME - (now - Val(users'[uid].timer_start_time))
                 /\ BagCardinality(LiveTimers(uid))' = 1]_vars

\* An Active session has just been restored part of the way through its
\* interval.
C8_Witness ==
    /\ last.op = "restore"
    /\ users[last.uid].status = "active"
    /\ Val(users[last.uid].timer_start_time) < now
    /\ users[last.uid].timer.st = "waiting"
    /\ users[last.uid].timer.due > now

\* C9: once the interrupt handler has written the snapshot and ended the main
\* thread, no follow-up timer fires and no session changes.
C9_NothingAfterSnapshot ==
    [][(phase = "exiting" /\ phase' = "exiting") => UNCHANGED <<users, orphans>>]_vars

\* C10: at startup a member whose file is absent or damaged gets a fresh
\* LoggedOut session, and startup goes on: it is never fatal.
C10_StartupNeverFatal ==
    /\ phase # "crashed"
    /\ phase = "loading" =>
          \A i \in 1..Len(Roster) :
              (Roster[i].id \in DOMAIN users /\ disk[Roster[i].id].kind # "pickle")
              => users[Roster[i].id] = NewUser(Roster[i])

\* The session and the timers of uid after the step are those that the
\* context c holds.
SessionIs(uid, c) ==
    /\ SameSession(users'[uid], c.u)
    /\ users'[uid].timer = c.u.timer
    /\ orphans'[uid] = c.orph

\* C11: a failed send does not affect session state: after a command or a
\* follow-up whose message was not delivered, status, timerAnchor,
\* accumulatedWorkTime, pendingUpdates and the timers are what they would be
\* had the message been delivered.
C11_FailedSendSameState ==
    [][\A uid \in UserIds, send \in SendOutcomes \ {"ok"} :
          /\ \A user_input \in Inputs :
                DeliverSendFails(uid, user_input, send)
                    => SessionIs(uid, HandleCommand(Ctx(uid), user_input))
          /\ TimelyFollowupSendFails(uid, send)
                => \E c0 \in FollowupContexts(uid) :
                        SessionIs(uid, TimelyFollowupBody(c0))]_vars

\* C12: help, sent from any status, sends the help text and changes nothing of
\* the session: not the status, accumulatedWorkTime, pendingUpdates,
\* timerAnchor or any timer (so sending it again changes nothing either).
C12_HelpChangesNothing ==
    [][received' # received =>
          LET uid == last'.uid IN
          Deliver(uid, <<"help">>)
            => /\ OnlyMessage(uid, HELP_MESSAGE)
               /\ SessionUnchanged(uid)]_vars

\* A Paused user has just got the help text.
C12_Witness ==
    /\ last.op = "command"
    /\ users[last.uid].status = "paused"
    /\ out = <<Call("msg", {last.uid}, HELP_MESSAGE, <<>>, 0)>>

\* C13: pause leaves accumulatedWorkTime unchanged, and so does resume; when
\* the pause came t < FOLLOWUP_INTERVAL after the anchor, resume arms the new
\* timer for FOLLOWUP_INTERVAL - t and sets the anchor to (now - t), however
\* long the pause was.
C13_PauseResumeKeepsElapsed ==
    [][received' # received =>
          LET uid == last'.uid
              t == Val(users[uid].pause_time) - Val(users[uid].timer_start_time)
          IN
          /\ (users[uid].status = "active" /\ Deliver(uid, <<"pause">>))
                => users'[uid].working_time = users[uid].working_time
          /\ (/\ users[uid].status = "paused"
               /\ t < FOLLOWUP_TIME
               /\ Deliver(uid, <<"resume">>))
                => /\ users'[uid].working_time = users[uid].working_time
                   /\ users'[uid].status = "active"
                   /\ users'[uid].timer = [st |-> "waiting", due |-> now + (FOLLOWUP_TIME - t)]
                   /\ users'[uid].timer_start_time = Some(now - t)]_vars

\* Scenario B: a session that paused part of the way through its interval has
\* just resumed, after a pause that took some time.
C13_Witness ==
    /\ last.op = "command"
    /\ users[last.uid].status = "active"
    /\ out # <<>>
    /\ out[1].text = RESUME_MESSAGE
    /\ Val(users[last.uid].timer_start_time) < now
    /\ Val(users[last.uid].pause_time) < now
    /\ users[last.uid].timer.due < now + FOLLOWUP_TIME

\* uid is Active and its timer is armed for an instant the clock reaches.
ArmedActive(uid) ==
    /\ uid \in DOMAIN users
    /\ users[uid].status = "active"
    /\ users[uid].timer.st = "waiting"
    /\ users[uid].timer.due <= MaxTime

\* uid has just been nagged by a follow-up.
Nagged(uid) ==
    /\ last = Event("followup", uid)
    /\ out = <<Call("msg", {uid}, REQUEST_FOR_UPDATE, <<>>, 0)>>

\* C14: the armed timer of an Active session fires unless a command of the
\* user (or the end of the process) comes first, and every follow-up that
\* finds the session Active sends exactly one nag, adds exactly one
\* FOLLOWUP_INTERVAL to accumulatedWorkTime, arms a new timer for the full
\* interval (anchor = now) and leaves the status Active.
C14_IdleActiveIsNagged ==
    /\ [][\A uid \in UserIds :
             (/\ uid \in DOMAIN users
              /\ users[uid].status = "active"
              /\ TimelyFollowup(uid))
             => /\ out' = <<Call("msg", {uid}, REQUEST_FOR_UPDATE, <<>>, 0)>>
                /\ users'[uid].working_time =
                        Some(Val(users[uid].working_time) + FOLLOWUP_TIME)
                /\ users'[uid].status = "active"
                /\ users'[uid].updates = users[uid].updates
                /\ users'[uid].timer = [st |-> "waiting", due |-> now + FOLLOWUP_TIME]
                /\ users'[uid].timer_start_time = Some(now)]_vars
    /\ \A uid \in UserIds :
          ArmedActive(uid) ~> \/ Nagged(uid)
                              \/ last = Event("command", uid)
                              \/ phase = "stopped"

\* Scenario C, twice: a user who logged in and sent nothing since has just
\* been nagged for the second time, two intervals after the login.
C14_Witness ==
    /\ last.op = "followup"
    /\ Nagged(last.uid)
    /\ users[last.uid].status = "active"
    /\ users[last.uid].updates = Some(<<>>)
    /\ received = 1
    /\ users[last.uid].working_time = Some(2 * FOLLOWUP_TIME)
    /\ users[last.uid].timer = [st |-> "waiting", due |-> now + FOLLOWUP_TIME]

\* What logout does to the session of uid, but for the timers: the time up to
\* now (Active) or up to the pause (Paused) is added, the status is LoggedOut,
\* and the report goes to the user and the admins with all the updates, in
\* order, and the final time.
LogoutFinalizes(uid) ==
    LET final_time == IF users[uid].status = "active"
                      THEN now ELSE Val(users[uid].pause_time)
        total == Val(users[uid].working_time)
                    + (final_time - Val(users[uid].timer_start_time))
    IN  /\ users'[uid].working_time = Some(total)
        /\ users'[uid].status = "logged_out"
        /\ Len(out') = 3
        /\ out'[3] = Call("file", ADMINS \cup {"@" \o users[uid].name}, "stats",
                          Val(users[uid].updates), total)

\* C15: logout from Active adds (now - timerAnchor) and logout from Paused
\* adds (pauseStartedAt - timerAnchor) to accumulatedWorkTime; the session
\* ends LoggedOut with no armed timer, and the report sent to the user and the
\* admins holds every update since login, in order, and the final time.
C15_LogoutFinalizes ==
    [][received' # received =>
          \A uid \in DOMAIN users :
             (/\ users[uid].status \in {"active", "paused"}
              /\ Deliver(uid, <<"logout">>))
             => /\ LogoutFinalizes(uid)
                /\ BagCardinality(WaitingTimers(uid))' = 0]_vars

\* The messages whose first word is none of the six verbs in any letter case:
\* names of other members of User (a property, a method, an attribute) and a
\* word that names nothing.
UnknownInputs ==
    {i \in Inputs \ {<<>>} : i[1] \in {"status", "handle_command", "_timer", "hello"}}

\* C16: a message whose first word is not one of the six verbs is answered
\* with the unrecognized-input message and changes nothing, also when the word
\* names another member of the session object; a verb in another letter case
\* is carried out as that command.
C16_UnknownVerbRejected ==
    [][received' # received =>
          LET uid == last'.uid IN
          /\ \/ /\ OnlyMessage(uid, INVALID_INPUT)
                /\ SessionUnchanged(uid)
             \/ \A user_input \in UnknownInputs : ~Deliver(uid, user_input)
          /\ (users[uid].status = "logged_out" /\ Deliver(uid, <<"LOGIN">>))
                => /\ users'[uid].status = "active"
                   /\ out'[1].text = MORNING_MESSAGE
          /\ (users[uid].status = "active" /\ Deliver(uid, <<"Pause">>))
                => /\ users'[uid].status = "paused"
                   /\ out'[1].text = PAUSE_MESSAGE]_vars

\* An Active user has just sent a message that starts with the name of a
\* method that is not a command, and got the unrecognized-input message.
C16_Witness ==
    /\ last.op = "command"
    /\ users[last.uid].status = "active"
    /\ out = <<Call("msg", {last.uid}, INVALID_INPUT, <<>>, 0)>>

\* C17: update from Active, with a text or bare, appends the text (the empty
\* text for a bare update) as one entry to pendingUpdates, adds
\* (now - timerAnchor) to accumulatedWorkTime, cancels the timer that is
\* armed and arms a new one for the full interval with timerAnchor = now;
\* the status stays Active.
C17_UpdateFromActive ==
    [][received' # received =>
          LET uid == last'.uid IN
          \A user_input \in {<<"update">>, <<"update", "foo">>} :
             (users[uid].status = "active" /\ Deliver(uid, user_input))
             => /\ users'[uid].updates =
                        Some(Append(Val(users[uid].updates), Tail(user_input)))
                /\ users'[uid].working_time =
                        Some(Val(users[uid].working_time)
                                + (now - Val(users[uid].timer_start_time)))
                /\ users[uid].timer.st = "waiting" => orphans'[uid] = orphans[uid]
                /\ users'[uid].timer = [st |-> "waiting", due |-> now + FOLLOWUP_TIME]
                /\ users'[uid].timer_start_time = Some(now)
                /\ users'[uid].status = "active"]_vars

\* A bare `update` has just been accepted part of the way through the
\* interval: the entry is the empty text.
C17_Witness ==
    /\ last.op = "command"
    /\ users[last.uid].status = "active"
    /\ users[last.uid].updates = Some(<< <<>> >>)
    /\ out # <<>>
    /\ out[1].text = UPDATE_MESSAGE
    /\ users[last.uid].working_time = Some(1)
    /\ users[last.uid].timer = [st |-> "waiting", due |-> now + FOLLOWUP_TIME]

\* C18: a nag is sent only when a full FOLLOWUP_INTERVAL of Active time has
\* passed since the login, update or nag before it (the anchor, which resume
\* moves forward by the length of the pause): never right after an update was
\* accepted, and never twice for the same interval.
C18_NagOnlyAfterFullInterval ==
    [][\A uid \in DOMAIN users :
          (/\ TimelyFollowup(uid)
           /\ out' = <<Call("msg", {uid}, REQUEST_FOR_UPDATE, <<>>, 0)>>)
          => now - Val(users[uid].timer_start_time) >= FOLLOWUP_TIME]_vars

\* C19: accumulatedWorkTime never exceeds the time the session has been
\* Active since its login.  Every session of a run was logged in at or after
\* instant 0, so that time is at most `now`: the claim requires at least that
\* accumulatedWorkTime never exceeds `now`.
C19_WorkTimeWithinElapsed ==
    \A uid \in DOMAIN users :
        users[uid].working_time # None => Val(users[uid].working_time) <= now

\* The examples of C20: a session that is Active has its anchor and its
\* working time, and a session that is Paused has the time of its pause.
Whole(u) ==
    /\ u.status = "active" =>
            /\ u.timer_start_time # None
            /\ u.working_time # None
    /\ u.status = "paused" => u.pause_time # None

\* C20: every snapshot on disk holds, for each session, a state between two
\* complete transitions: never a half-done one such as Active without
\* timerAnchor or Paused without pauseStartedAt, so that loading it never
\* fails.
C20_SnapshotIsWhole ==
    /\ \A uid \in UserIds :
          disk[uid].kind = "pickle" => Whole(Val(disk[uid].state))
    /\ ~(phase = "crashed" /\ last.op = "crash" /\ out[1].text = "TypeError")

====
